---- MODULE Spec2Model ----
(***************************************************************************)
(* A model of class Zip (src/zip.cpp): the one-shot compress / decompress  *)
(* pair with its buffer-growth retries, and the two streaming operations   *)
(* compressStream / decompressStream that drive a z_stream over an         *)
(* std::istream source and an std::ostream sink.                           *)
(*                                                                         *)
(* zlib itself is a library, not code of this repository.  Its entry       *)
(* points (deflateInit2, deflate, deflateEnd, inflateInit2, inflate,       *)
(* inflateEnd, compress2, uncompress, compressBound) are modelled by a     *)
(* small codec with the same stream interface (next_in / avail_in /        *)
(* next_out / avail_out, flush modes, return codes) and the same framing:  *)
(* a 2-byte header whose second byte makes the pair a multiple of 31, a    *)
(* body, and the 4-byte big-endian Adler-32 of the uncompressed data.      *)
(* The body is run-length coded: a token is a count byte followed by a     *)
(* value byte, a count of 0 ends the body.  Level 0 stores every byte as   *)
(* its own token, the other levels merge runs.                             *)
(*                                                                         *)
(* Sizes are counted in bytes.  CHUNK_SIZE is 64 KiB in the source and is  *)
(* scaled down here; the buffers keep the source's proportions (inBuf is   *)
(* CHUNK_SIZE bytes, outBuf is 2 * CHUNK_SIZE bytes).                      *)
(***************************************************************************)
EXTENDS Integers, Sequences, FiniteSets, TLC

\* ------------------------------------------------------------------ bounds
\* The chunk size of both streaming operations (scaled from 64 * 1024).
CHUNK_SIZE == 3
\* The longest input drawn for an operation: two full chunks.
MaxLen == 6
\* The length of the one long single-byte run that is also drawn as an input.
LongLen == 100
\* The length of a shorter run, which Zip::decompress restores on a retry.
MidLen == 20
\* How many source reads / sink writes the fault injection ranges over.
MaxFaultAt == 1
\* The longest input of the runs checked for termination.
TermLen == 2
\* Instrumentation counters saturate here.
MaxCount == 3

\* ------------------------------------------------------------- small helpers
Min(a, b) == IF a < b THEN a ELSE b
Bump(n) == Min(n + 1, MaxCount)
Zeros(n) == [k \in 1..n |-> 0]
Take(s, n) == SubSeq(s, 1, Min(n, Len(s)))
Drop(s, n) == SubSeq(s, Min(n, Len(s)) + 1, Len(s))
\* The slip of inserting at the front of the buffer, which grows it.
OverwriteGrow(s, t) == t \o s
\* s with its first Len(t) places overwritten by t (a copy into a buffer).
Overwrite(s, t) == [k \in 1..Len(s) |-> IF k <= Len(t) THEN t[k] ELSE s[k]]
IsPrefix(s, t) == Len(s) <= Len(t) /\ s = SubSeq(t, 1, Len(s))

\* ------------------------------------------------------------ zlib: checksum
\* Adler-32 as the pair <<s1, s2>>; adler32(0, NULL, 0) is <<1, 0>>.
AdlerInit == <<1, 0>>
AdlerStep(ad, x) ==
    LET a == (ad[1] + x) % 65521 IN <<a, (ad[2] + a) % 65521>>
\* The checksum after k more bytes of value x.
AdlerSkip(ad, x, k) ==
    <<(ad[1] + k * x) % 65521,
      (ad[2] + k * ad[1] + x * ((k * (k + 1)) \div 2)) % 65521>>
\* The stream trailer: s2 then s1, each big-endian.
Trailer(ad) == <<ad[2] \div 256, ad[2] % 256, ad[1] \div 256, ad[1] % 256>>

\* ------------------------------------------------------------- zlib: deflate
\* Z_DEFAULT_COMPRESSION (-1) selects level 6.
EffLevel(level) == IF level = -1 THEN 6 ELSE level
LevelOk(level) == EffLevel(level) \in 0..9
\* The header: CMF 0x78 and the FLG byte zlib writes for the level.
HeaderOf(level) ==
    <<120, IF level <= 1 THEN 1
           ELSE IF level <= 5 THEN 94
           ELSE IF level = 6 THEN 156 ELSE 218>>
\* Level 0 stores (no run is merged); the other levels merge up to 255.
MaxRun(level) == IF level = 0 THEN 1 ELSE 255

\* The length of the run of equal bytes s starts with (s is not empty).
SameLen(s) ==
    IF \A k \in 1..Len(s) : s[k] = s[1] THEN Len(s)
    ELSE (CHOOSE k \in 1..Len(s) : s[k] # s[1] /\ \A j \in 1..(k - 1) : s[j] = s[1]) - 1

\* The internal deflate state after a successful deflateInit2.
DeflateState(level) ==
    [status |-> "INIT", level |-> EffLevel(level), run |-> <<>>,
     pending |-> <<>>, adler |-> AdlerInit]

\* One deflate call on the bytes in, with room bytes of output space:
\* pending output is flushed first, the header is queued on the first call,
\* input is consumed while no output is stuck, and Z_FINISH queues the last
\* token, the end marker and the trailer once the input is consumed.
RECURSIVE DeflateRun(_, _, _, _, _)
DeflateFrom(s, in, out, room, flush) ==
    IF s.pending # <<>> THEN
        IF room = 0 THEN [s |-> s, in |-> in, out |-> out]
        ELSE LET n == Min(room, Len(s.pending)) IN
             DeflateRun([s EXCEPT !.pending = Drop(@, n)], in,
                        out \o Take(s.pending, n), room - n, flush)
    ELSE IF s.status = "INIT" THEN
        DeflateRun([s EXCEPT !.status = "BUSY", !.pending = HeaderOf(s.level)],
                   in, out, room, flush)
    ELSE IF s.status = "BUSY" /\ in # <<>> THEN
        LET x == Head(in)
            held == IF s.run # <<>> /\ s.run[2] = x THEN s.run[1] ELSE 0
            k == Min(SameLen(in), MaxRun(s.level) - held)
        IN  IF k > 0 THEN
                \* x starts or extends the run held back
                DeflateRun([s EXCEPT !.run = <<held + k, x>>,
                                     !.adler = AdlerSkip(@, x, k),
                                     !.pending = IF held = 0 THEN s.run ELSE <<>>],
                           Drop(in, k), out, room, flush)
            ELSE
                \* the run held back is full: it is emitted
                DeflateRun([s EXCEPT !.run = <<>>, !.pending = s.run],
                           in, out, room, flush)
    ELSE IF s.status = "BUSY" /\ flush = "Z_FINISH" THEN
        DeflateRun([s EXCEPT !.status = "FINISH", !.run = <<>>,
                             !.pending = s.run \o <<0>> \o Trailer(s.adler)],
                   in, out, room, flush)
    ELSE [s |-> s, in |-> in, out |-> out]

\* The arguments are evaluated once, here, and handed on as values.
DeflateRun(s0, in0, out0, room0, flush) ==
    CHOOSE r \in {DeflateFrom(c.s, c.in, c.out, c.room, c.flush) :
                    c \in {[s |-> s0, in |-> in0, out |-> out0,
                            room |-> room0, flush |-> flush]}} : TRUE

\* deflate's return code for a call that went from state s with input in to
\* the result r.
DeflateCode(s, in, flush, r) ==
    IF s.status = "FINISH" /\ flush # "Z_FINISH" THEN "Z_STREAM_ERROR"
    ELSE IF s.status = "FINISH" /\ in # <<>> THEN "Z_BUF_ERROR"
    ELSE IF r.s.status = "FINISH" /\ r.s.pending = <<>> THEN "Z_STREAM_END"
    ELSE IF r.in = in /\ r.out = <<>> THEN "Z_BUF_ERROR"
    ELSE "Z_OK"

\* ------------------------------------------------------------- zlib: inflate
\* win tells whether the sliding window was allocated.
InflateState ==
    [mode |-> "HEAD1", cmf |-> 0, cnt |-> 0, val |-> 0, chk |-> <<>>,
     adler |-> AdlerInit, win |-> FALSE]

HeaderBad(cmf, flg) ==
    \/ (cmf * 256 + flg) % 31 # 0
    \/ cmf % 16 # 8
    \/ cmf \div 16 > 7

\* One inflate call: copies of the current token go out while there is room,
\* input that produces no output (header, token bytes, end marker, trailer)
\* is consumed regardless of room; input after the trailer is left alone.
RECURSIVE InflateRun(_, _, _, _)
InflateFrom(s, in, out, room) ==
    IF s.mode \in {"DONE", "BAD", "DICT", "MEM"} THEN [s |-> s, in |-> in, out |-> out]
    ELSE IF s.mode = "COPY" THEN
        IF room = 0 THEN [s |-> s, in |-> in, out |-> out]
        ELSE LET k == Min(room, s.cnt) IN
             InflateRun([s EXCEPT !.cnt = @ - k,
                                  !.mode = IF s.cnt = k THEN "CNT" ELSE "COPY",
                                  !.adler = AdlerSkip(@, s.val, k)],
                        in, out \o [j \in 1..k |-> s.val], room - k)
    ELSE IF in = <<>> THEN [s |-> s, in |-> in, out |-> out]
    ELSE LET x == Head(in) IN
        CASE s.mode = "HEAD1" ->
                InflateRun([s EXCEPT !.mode = "HEAD2", !.cmf = x],
                           Tail(in), out, room)
          [] s.mode = "HEAD2" ->
                InflateRun([s EXCEPT !.mode =
                                IF HeaderBad(s.cmf, x) THEN "BAD"
                                ELSE IF (x \div 32) % 2 = 1 THEN "DICT"
                                ELSE "CNT"],
                           Tail(in), out, room)
          [] s.mode = "CNT" ->
                InflateRun([s EXCEPT !.mode = IF x = 0 THEN "CHECK" ELSE "VAL",
                                     !.cnt = x],
                           Tail(in), out, room)
          [] s.mode = "VAL" ->
                InflateRun([s EXCEPT !.mode = "COPY", !.val = x],
                           Tail(in), out, room)
          [] s.mode = "CHECK" ->
                LET c == Append(s.chk, x) IN
                InflateRun([s EXCEPT !.chk = c,
                                     !.mode = IF Len(c) < 4 THEN "CHECK"
                                              ELSE IF c = Trailer(s.adler) THEN "DONE"
                                              ELSE "BAD"],
                           Tail(in), out, room)

\* The arguments are evaluated once, here, and handed on as values.
InflateRun(s0, in0, out0, room0) ==
    CHOOSE r \in {InflateFrom(c.s, c.in, c.out, c.room) :
                    c \in {[s |-> s0, in |-> in0, out |-> out0,
                            room |-> room0]}} : TRUE

InflateCode(in, r) ==
    IF r.s.mode = "DONE" THEN "Z_STREAM_END"
    ELSE IF r.s.mode = "BAD" THEN "Z_DATA_ERROR"
    ELSE IF r.s.mode = "DICT" THEN "Z_NEED_DICT"
    ELSE IF r.s.mode = "MEM" THEN "Z_MEM_ERROR"
    ELSE IF r.in = in /\ r.out = <<>> THEN "Z_BUF_ERROR"
    ELSE "Z_OK"

\* ----------------------------------------------------- zlib: one-shot calls
\* The worst case of the codec: two bytes per input byte, header, end marker
\* and trailer.
compressBound(n) == 2 * n + 7

\* compress2(dest, &destLen, source, sourceLen, level).
compress2(cap, data, level) ==
    IF ~LevelOk(level) THEN [err |-> "Z_STREAM_ERROR", dest |-> <<>>]
    ELSE LET r == DeflateRun(DeflateState(level), data, <<>>, cap, "Z_FINISH") IN
         IF r.s.status = "FINISH" /\ r.s.pending = <<>>
         THEN [err |-> "Z_OK", dest |-> r.out]
         ELSE [err |-> "Z_BUF_ERROR", dest |-> r.out]

\* uncompress(dest, &destLen, source, sourceLen): Z_BUF_ERROR only when the
\* destination is full; an input that ends early is a Z_DATA_ERROR.
uncompress(cap, src) ==
    LET r == InflateRun(InflateState, src, <<>>, cap) IN
    IF r.s.mode = "DONE" THEN [err |-> "Z_OK", dest |-> r.out]
    ELSE IF r.s.mode \in {"BAD", "DICT"} THEN [err |-> "Z_DATA_ERROR", dest |-> r.out]
    ELSE IF Len(r.out) < cap THEN [err |-> "Z_DATA_ERROR", dest |-> r.out]
    ELSE [err |-> "Z_BUF_ERROR", dest |-> r.out]

\* ------------------------------------------------------- iostream: source
\* std::istream over the bytes buf, read position pos, with its state bits
\* and the count of the last unformatted read.
Istream(bytes) ==
    [buf |-> bytes, pos |-> 0, eofbit |-> FALSE, failbit |-> FALSE,
     badbit |-> FALSE, gcount |-> 0]
IstreamGood(is) == ~is.eofbit /\ ~is.failbit /\ ~is.badbit
\* istream::read(s, n): nothing is extracted from a stream that is not good;
\* reaching the end before n bytes sets eofbit and failbit.
IstreamRead(is, n) ==
    IF ~IstreamGood(is) THEN
        [is |-> [is EXCEPT !.failbit = TRUE, !.gcount = 0], bytes |-> <<>>]
    ELSE LET k == Min(n, Len(is.buf) - is.pos) IN
        [is |-> [is EXCEPT !.pos = @ + k, !.gcount = k,
                           !.eofbit = k < n, !.failbit = k < n],
         bytes |-> SubSeq(is.buf, is.pos + 1, is.pos + k)]
\* A read the device fails: nothing is delivered, badbit is set, eofbit is not.
IstreamFail(is) == [is EXCEPT !.badbit = TRUE, !.gcount = 0]

\* --------------------------------------------------------- iostream: sink
Ostream == [data |-> <<>>, badbit |-> FALSE]
\* ostream::write(s, n): a stream that is not good takes nothing.
OstreamWrite(os, bytes) ==
    IF os.badbit THEN os ELSE [os EXCEPT !.data = @ \o bytes]
\* A write the device fails: badbit is set and the bytes are lost.
OstreamFail(os) == [os EXCEPT !.badbit = TRUE]

\* ------------------------------------------------------------------- inputs
Byte == {0, 1}
RECURSIVE SeqsUpTo(_)
SeqsUpTo(n) ==
    IF n = 0 THEN {<<>>}
    ELSE LET S == SeqsUpTo(n - 1) IN
         S \cup {Append(s, b) : s \in {t \in S : Len(t) = n - 1}, b \in Byte}
\* The byte sequences handed to the compressing operations.
Inputs == SeqsUpTo(MaxLen) \cup {Zeros(MidLen), Zeros(LongLen)}
\* The levels tried: the valid range, one below and one above.
Levels == -1..10
\* The <<bytes, level>> pairs a compressing operation is called with.  The
\* long run is not drawn at level 0, which stores every byte of it as a token.
Arguments == {a \in Inputs \X Levels : Len(a[1]) <= MaxLen \/ a[2] # 0}
ProperPrefixes(s) == {SubSeq(s, 1, n) : n \in 0..(Len(s) - 1)}

\* -------------------------------------------------------------------- state
VARIABLES
    op,         \* the operation in progress or last run ("idle" before any)
    pc,         \* the position in it
    outcome,    \* how it ended: [kind, what]
    stage,      \* how many operations were called
    data,       \* the vector argument of compress / decompress
    level,      \* the level argument
    input,      \* the std::istream
    output,     \* the std::ostream
    stream,     \* z_stream and the codec state behind it
    inBuf,      \* the input chunk buffer
    outBuf,     \* the output chunk buffer
    flush,      \* compressStream's flush
    ret,        \* decompressStream's ret
    exc,        \* the exception in flight inside the try block
    bufferSize, \* decompress: bufferSize
    i,          \* decompress: the loop counter
    err,        \* decompress: err; compressStream: the err of line 148
    result,     \* the vector a one-shot operation returns
    hist        \* instrumentation: what was called and what happened

vars == <<op, pc, outcome, stage, data, level, input, output, stream, inBuf,
          outBuf, flush, ret, exc, bufferSize, i, err, result, hist>>

NoOutcome == [kind |-> "none", what |-> ""]
Returned == [kind |-> "returned", what |-> ""]
Threw(kind, what) == [kind |-> kind, what |-> what]
\* ends counts the deflateEnd / inflateEnd calls made on the z_stream.
NoStream == [life |-> "Uninit", st |-> <<>>, next_in |-> 0, avail_in |-> 0,
             next_out |-> 0, avail_out |-> 0, ends |-> 0]

\* hist: orig is the byte sequence first compressed, from the operation that
\* produced the blob being decompressed, rel how the decompressed source
\* relates to that blob; the counters count calls of this operation; req is
\* the byte count the last source read asked for, sunk the bytes handed to
\* output.write so far, whether or not the device took them, mark how many
\* of them there were when the last deflate / inflate call was made, fed
\* the bytes the codec has consumed from inBuf, in the order it took them.
NoHist ==
    [orig |-> <<>>, from |-> "none", rel |-> "none", blob |-> <<>>,
     nInit |-> 0, nReads |-> 0, nWrites |-> 0, nCodec |-> 0,
     readFailed |-> FALSE, writeFailed |-> FALSE, setupFailed |-> FALSE,
     undefRead |-> FALSE, caps |-> <<>>, errs |-> <<>>, req |-> 0,
     sunk |-> <<>>, mark |-> 0, memFailed |-> FALSE, fed |-> <<>>]

Init ==
    /\ op = "idle" /\ pc = "done" /\ outcome = NoOutcome /\ stage = 0
    /\ data = <<>> /\ level = 0
    /\ input = Istream(<<>>) /\ output = Ostream
    /\ stream = NoStream
    /\ inBuf = <<>> /\ outBuf = <<>>
    /\ flush = "UNINIT" /\ ret = "UNINIT" /\ exc = NoOutcome
    /\ bufferSize = 0 /\ i = 0 /\ err = "Z_OK" /\ result = <<>>
    /\ hist = NoHist

\* What a call resets: the locals of the previous operation.
Fresh(o, p) ==
    /\ op' = o /\ pc' = p /\ outcome' = NoOutcome /\ stage' = stage + 1
    /\ stream' = NoStream /\ inBuf' = <<>> /\ outBuf' = <<>>
    /\ flush' = "UNINIT" /\ ret' = "UNINIT" /\ exc' = NoOutcome
    /\ bufferSize' = 0 /\ i' = 0 /\ err' = "Z_OK" /\ result' = <<>>

\* ----------------------------------------------------------- compressStream
\* The caller: Zip::compressStream(input, output, level) on a source holding B.
CallCompressStream ==
    /\ stage = 0
    /\ \E a \in Arguments :
        /\ Fresh("compressStream", "cs_init")
        /\ level' = a[2] /\ data' = <<>>
        /\ input' = Istream(a[1]) /\ output' = Ostream
        /\ hist' = [NoHist EXCEPT !.orig = a[1]]

\* deflateInit2's results: Z_STREAM_ERROR for a bad level, else Z_OK, or
\* Z_MEM_ERROR when the state cannot be allocated.
deflateInit2(lvl) ==
    IF LevelOk(lvl) THEN {"Z_OK", "Z_MEM_ERROR"} ELSE {"Z_STREAM_ERROR"}

\* Lines 125-134: the buffers, z_stream stream = {}, deflateInit2.
CS_Init ==
    /\ op = "compressStream" /\ pc = "cs_init"
    /\ inBuf' = Zeros(CHUNK_SIZE)
    /\ outBuf' = Zeros(CHUNK_SIZE * 2)
    /\ \E rc \in deflateInit2(level) :
        IF rc # "Z_OK" THEN
            /\ outcome' = Threw("runtime_error", "deflateInit failed")
            /\ pc' = "done"
            /\ hist' = [hist EXCEPT !.setupFailed = (rc = "Z_MEM_ERROR")]
            /\ UNCHANGED stream
        ELSE
            /\ stream' = [NoStream EXCEPT !.life = "Active",
                                          !.st = DeflateState(level)]
            /\ hist' = [hist EXCEPT !.nInit = Bump(@)]
            /\ pc' = "cs_read"
            /\ UNCHANGED outcome
    /\ UNCHANGED <<op, stage, data, level, input, output, flush, ret, exc,
                   bufferSize, i, err, result>>

\* Whether the device may fail this read / this write: one failure per
\* behaviour, among the first MaxFaultAt reads or writes of the operation.
MayFailRead == IstreamGood(input) /\ hist.nReads < MaxFaultAt
                 /\ ~hist.readFailed /\ ~hist.writeFailed
                 /\ ~hist.memFailed
MayFailWrite(bytes) == ~output.badbit /\ hist.nWrites < MaxFaultAt
                 /\ bytes # <<>> /\ ~hist.readFailed /\ ~hist.writeFailed
                 /\ ~hist.memFailed

\* The slip of never finishing.
FlushNever(is) == "Z_NO_FLUSH"
\* The slip of finishing on every chunk.
FlushAlways(is) == "Z_FINISH"
\* Line 141: flush = input.eof() ? Z_FINISH : Z_NO_FLUSH.
FlushOf(is) == IF is.eofbit THEN "Z_FINISH" ELSE "Z_NO_FLUSH"

\* Lines 139-142: input.read, avail_in = gcount, flush from eof(), next_in.
CS_Read ==
    /\ op = "compressStream" /\ pc = "cs_read"
    /\ \/ LET r == IstreamRead(input, CHUNK_SIZE) IN
          /\ input' = r.is
          /\ inBuf' = Overwrite(inBuf, r.bytes)
          /\ stream' = [stream EXCEPT !.avail_in = r.is.gcount, !.next_in = 1]
          /\ flush' = FlushOf(r.is)
          /\ hist' = [hist EXCEPT !.nReads = Bump(@), !.req = CHUNK_SIZE]
          /\ pc' = "cs_deflate"
          /\ UNCHANGED exc
       \/ /\ MayFailRead
          /\ input' = IstreamFail(input)
          /\ hist' = [hist EXCEPT !.nReads = Bump(@), !.readFailed = TRUE,
                                   !.req = CHUNK_SIZE]
          /\ \/ \* exceptions() is clear: the failure is only a state bit
                /\ stream' = [stream EXCEPT !.avail_in = 0, !.next_in = 1]
                /\ flush' = FlushOf(input')
                /\ pc' = "cs_deflate"
                /\ UNCHANGED exc
             \/ \* exceptions() has badbit: read throws ios_base::failure
                /\ exc' = Threw("ios_failure", "read")
                /\ pc' = "cs_catch"
                /\ UNCHANGED <<stream, flush>>
          /\ UNCHANGED inBuf
    /\ UNCHANGED <<op, outcome, stage, data, level, output, outBuf, ret,
                   bufferSize, i, err, result>>

\* deflate(&stream, flush) on the z_stream zs and the two buffers.
deflate(zs, ib, ob, fl) ==
    LET in == SubSeq(ib, zs.next_in, zs.next_in + zs.avail_in - 1)
        r == DeflateRun(zs.st, in, <<>>, zs.avail_out, fl)
        code == IF zs.life # "Active" THEN "Z_STREAM_ERROR"
                ELSE DeflateCode(zs.st, in, fl, r)
    IN  IF code = "Z_STREAM_ERROR" \/ (zs.st.status = "FINISH" /\ in # <<>>)
        THEN [zs |-> zs, ob |-> ob, code |-> code]
        ELSE [zs |-> [zs EXCEPT !.st = r.s,
                                !.next_in = @ + (Len(in) - Len(r.in)),
                                !.avail_in = Len(r.in),
                                !.next_out = @ + Len(r.out),
                                !.avail_out = @ - Len(r.out)],
              ob |-> Overwrite(ob, r.out),
              code |-> code]

\* Lines 145-151: avail_out, next_out, deflate, the Z_STREAM_ERROR test.
CS_Deflate ==
    /\ op = "compressStream" /\ pc = "cs_deflate"
    /\ \E r \in {deflate([stream EXCEPT !.avail_out = Len(outBuf),
                                          !.next_out = 1],
                         inBuf, outBuf, flush)} :
          /\ stream' = r.zs
          /\ outBuf' = r.ob
          /\ err' = r.code
          /\ hist' = [hist EXCEPT !.nCodec = Bump(@), !.mark = Len(hist.sunk),
                        !.fed = @ \o SubSeq(inBuf, stream.next_in,
                                            r.zs.next_in - 1)]
          /\ IF r.code = "Z_STREAM_ERROR"
             THEN /\ exc' = Threw("runtime_error", "Compression error")
                  /\ pc' = "cs_catch"
             ELSE /\ pc' = "cs_write"
                  /\ UNCHANGED exc
    /\ UNCHANGED <<op, outcome, stage, data, level, input, output, inBuf,
                   flush, ret, bufferSize, i, result>>

\* The slip of an inner loop that runs once per chunk.
MoreOutputNever(zs) == FALSE
\* Lines 155 and 198: while (stream.avail_out == 0), the codec filled the
\* output buffer and may have more.
MoreOutput(zs) == zs.avail_out = 0

\* The slip of taking the space left for the space used.
HaveAvailOut(ob, zs) == zs.avail_out
\* The slip of writing the whole buffer instead of what the codec produced.
HaveWholeBuffer(ob, zs) == Len(ob)
\* Lines 153 and 196: have = outBuf.size() - stream.avail_out.
Have(ob, zs) == Len(ob) - zs.avail_out

\* Lines 153-156: have, output.write, and the two loop conditions.
CS_Write ==
    /\ op = "compressStream" /\ pc = "cs_write"
    /\ LET bytes == SubSeq(outBuf, 1, Have(outBuf, stream))
           after == IF MoreOutput(stream) THEN "cs_deflate"
                    ELSE IF flush # "Z_FINISH" THEN "cs_read"
                    ELSE "cs_end"
       IN \/ /\ output' = OstreamWrite(output, bytes)
             /\ hist' = [hist EXCEPT !.nWrites = Bump(@), !.sunk = @ \o bytes]
             /\ pc' = after
             /\ UNCHANGED exc
          \/ /\ MayFailWrite(bytes)
             /\ output' = OstreamFail(output)
             /\ hist' = [hist EXCEPT !.nWrites = Bump(@), !.writeFailed = TRUE,
                                      !.sunk = @ \o bytes]
             /\ \/ /\ pc' = after
                   /\ UNCHANGED exc
                \/ /\ exc' = Threw("ios_failure", "write")
                   /\ pc' = "cs_catch"
    /\ UNCHANGED <<op, outcome, stage, data, level, input, stream, inBuf,
                   outBuf, flush, ret, bufferSize, i, err, result>>

\* The slip of a cleanup that zeroes the z_stream after releasing it.
cleanupZeroed(zs) == [zs EXCEPT !.life = "Uninit", !.ends = Bump(@)]
\* The slip of a cleanup that releases nothing.
cleanupSkipped(zs) == zs
\* The cleanup lambda (lines 134 and 176): deflateEnd / inflateEnd releases
\* the codec state.
cleanup(zs) == [zs EXCEPT !.life = "Ended", !.ends = Bump(@)]

\* Lines 157-160: catch (...) { cleanup(); throw; }
CS_Catch ==
    /\ op = "compressStream" /\ pc = "cs_catch"
    /\ stream' = cleanup(stream)
    /\ outcome' = exc
    /\ pc' = "done"
    /\ UNCHANGED <<op, stage, data, level, input, output, inBuf, outBuf,
                   flush, ret, exc, bufferSize, i, err, result, hist>>

\* Line 162: cleanup() on the normal path, then the return.
CS_End ==
    /\ op = "compressStream" /\ pc = "cs_end"
    /\ stream' = cleanup(stream)
    /\ outcome' = Returned
    /\ pc' = "done"
    /\ UNCHANGED <<op, stage, data, level, input, output, inBuf, outBuf,
                   flush, ret, exc, bufferSize, i, err, result, hist>>

\* --------------------------------------------------------- decompressStream
\* What the finished compressing operation handed back: compress returns a
\* vector, compressStream leaves the bytes in the sink.
Produced == IF op = "compress" THEN result ELSE output.data
\* A compressing operation has returned normally with its source and sink
\* intact, so that its product can be handed to a decompressing operation.
CanDecompress ==
    /\ stage = 1 /\ pc = "done" /\ outcome = Returned
    /\ op \in {"compress", "compressStream"}
    /\ ~hist.readFailed /\ ~hist.writeFailed
\* The sources derived from a blob: the blob itself and its proper prefixes.
Derived(blob) ==
    {[src |-> blob, rel |-> "exact"]}
        \cup {[src |-> p, rel |-> "prefix"] : p \in ProperPrefixes(blob)}

\* The sources that are no part of a blob: the blob with its last byte (of
\* the checksum) changed, with the preset-dictionary flag set in a header
\* that still passes the header check, with a wrong method in the header,
\* and the blob followed by bytes that do not belong to it, in the same
\* chunk or reaching into a later one.
Damaged(blob) ==
    IF Len(blob) < 2 THEN {}
    ELSE {[src |-> [blob EXCEPT ![Len(blob)] = (@ + 1) % 256], rel |-> "corrupt"],
          [src |-> [blob EXCEPT ![2] = 187], rel |-> "corrupt"],
          [src |-> [blob EXCEPT ![1] = 121], rel |-> "corrupt"]}
         \cup {[src |-> blob \o [k \in 1..n |-> 255], rel |-> "trailing"] :
                    n \in {1, CHUNK_SIZE + 1}}

\* The caller: Zip::decompressStream(input, output) on a derived source.
CallDecompressStream ==
    /\ CanDecompress
    /\ \E d \in Derived(Produced) \cup Damaged(Produced) :
        /\ Fresh("decompressStream", "ds_init")
        /\ level' = 0 /\ data' = <<>>
        /\ input' = Istream(d.src) /\ output' = Ostream
        /\ hist' = [NoHist EXCEPT !.orig = hist.orig, !.from = op,
                                  !.rel = d.rel, !.blob = Produced]

\* inflateInit2's results: Z_OK, or Z_MEM_ERROR when the state cannot be
\* allocated.
inflateInit2 == {"Z_OK", "Z_MEM_ERROR"}

\* Lines 167-176: the buffers, z_stream stream = {}, inflateInit2.
DS_Init ==
    /\ op = "decompressStream" /\ pc = "ds_init"
    /\ inBuf' = Zeros(CHUNK_SIZE)
    /\ outBuf' = Zeros(CHUNK_SIZE * 2)
    /\ \E rc \in inflateInit2 :
        IF rc # "Z_OK" THEN
            /\ outcome' = Threw("runtime_error", "inflateInit failed")
            /\ pc' = "done"
            /\ hist' = [hist EXCEPT !.setupFailed = (rc = "Z_MEM_ERROR")]
            /\ UNCHANGED stream
        ELSE
            /\ stream' = [NoStream EXCEPT !.life = "Active", !.st = InflateState]
            /\ hist' = [hist EXCEPT !.nInit = Bump(@)]
            /\ pc' = "ds_read"
            /\ UNCHANGED outcome
    /\ UNCHANGED <<op, stage, data, level, input, output, flush, ret, exc,
                   bufferSize, i, err, result>>

\* Lines 181-184: input.read, avail_in = gcount, break on 0, next_in.
DS_Read ==
    /\ op = "decompressStream" /\ pc = "ds_read"
    /\ \/ LET r == IstreamRead(input, CHUNK_SIZE) IN
          /\ input' = r.is
          /\ inBuf' = Overwrite(inBuf, r.bytes)
          /\ hist' = [hist EXCEPT !.nReads = Bump(@), !.req = CHUNK_SIZE]
          /\ IF r.is.gcount = 0
             THEN /\ stream' = [stream EXCEPT !.avail_in = 0]
                  /\ pc' = "ds_check"
             ELSE /\ stream' = [stream EXCEPT !.avail_in = r.is.gcount,
                                              !.next_in = 1]
                  /\ pc' = "ds_inflate"
          /\ UNCHANGED exc
       \/ /\ MayFailRead
          /\ input' = IstreamFail(input)
          /\ hist' = [hist EXCEPT !.nReads = Bump(@), !.readFailed = TRUE,
                                   !.req = CHUNK_SIZE]
          /\ \/ /\ stream' = [stream EXCEPT !.avail_in = 0]
                /\ pc' = "ds_check"
                /\ UNCHANGED exc
             \/ /\ exc' = Threw("ios_failure", "read")
                /\ pc' = "ds_catch"
                /\ UNCHANGED stream
          /\ UNCHANGED inBuf
    /\ UNCHANGED <<op, outcome, stage, data, level, output, outBuf, flush, ret,
                   bufferSize, i, err, result>>

\* inflate(&stream, Z_NO_FLUSH) on the z_stream zs and the two buffers.
inflate(zs, ib, ob) ==
    LET in == SubSeq(ib, zs.next_in, zs.next_in + zs.avail_in - 1)
        r == InflateRun(zs.st, in, <<>>, zs.avail_out)
    IN  IF zs.life # "Active" THEN [zs |-> zs, ob |-> ob, code |-> "Z_STREAM_ERROR"]
        ELSE [zs |-> [zs EXCEPT !.st = [r.s EXCEPT !.win = @ \/ r.out # <<>>],
                                !.next_in = @ + (Len(in) - Len(r.in)),
                                !.avail_in = Len(r.in),
                                !.next_out = @ + Len(r.out),
                                !.avail_out = @ - Len(r.out)],
              ob |-> Overwrite(ob, r.out),
              code |-> InflateCode(in, r)]

\* The results an inflate call can have: the one above, and Z_MEM_ERROR
\* when the call is the first to produce output, has met no error, and the
\* window it then allocates cannot be had (once per behaviour, and not
\* together with a device failure).
inflateResults(zs, ib, ob) ==
    LET r == inflate(zs, ib, ob) IN
    {r} \cup
    IF ~zs.st.win /\ r.zs.st.win /\ r.code \in {"Z_OK", "Z_STREAM_END"}
        /\ ~hist.readFailed /\ ~hist.writeFailed
    THEN {[zs |-> [r.zs EXCEPT !.st.mode = "MEM", !.st.win = FALSE],
           ob |-> r.ob, code |-> "Z_MEM_ERROR"]}
    ELSE {}

\* The slip of testing inflate's result as compressStream tests deflate's.
IsInflateErrorLax(code) == code = "Z_STREAM_ERROR"
\* The return codes decompressStream treats as errors (lines 191-192).
IsInflateError(code) ==
    code \in {"Z_NEED_DICT", "Z_DATA_ERROR", "Z_MEM_ERROR", "Z_STREAM_ERROR"}

\* Lines 187-194: avail_out, next_out, inflate, the error test.
DS_Inflate ==
    /\ op = "decompressStream" /\ pc = "ds_inflate"
    /\ \E r \in inflateResults([stream EXCEPT !.avail_out = Len(outBuf),
                                                !.next_out = 1],
                                inBuf, outBuf) :
          /\ stream' = r.zs
          /\ outBuf' = r.ob
          /\ ret' = r.code
          /\ hist' = [hist EXCEPT !.nCodec = Bump(@), !.mark = Len(hist.sunk),
                        !.memFailed = (r.code = "Z_MEM_ERROR"),
                        !.fed = @ \o SubSeq(inBuf, stream.next_in,
                                            r.zs.next_in - 1)]
          /\ IF IsInflateError(r.code)
             THEN /\ exc' = Threw("runtime_error", "Decompression error")
                  /\ pc' = "ds_catch"
             ELSE /\ pc' = "ds_write"
                  /\ UNCHANGED exc
    /\ UNCHANGED <<op, outcome, stage, data, level, input, output, inBuf,
                   flush, bufferSize, i, err, result>>

\* The slip of an outer loop that goes on after the end of the stream.
MoreStreamAlways(code) == TRUE
\* Line 199: while (ret != Z_STREAM_END).
MoreStream(code) == code # "Z_STREAM_END"

\* Lines 196-199: have, output.write, and the two loop conditions.
DS_Write ==
    /\ op = "decompressStream" /\ pc = "ds_write"
    /\ LET bytes == SubSeq(outBuf, 1, Have(outBuf, stream))
           after == IF MoreOutput(stream) THEN "ds_inflate"
                    ELSE IF MoreStream(ret) THEN "ds_read"
                    ELSE "ds_check"
       IN \/ /\ output' = OstreamWrite(output, bytes)
             /\ hist' = [hist EXCEPT !.nWrites = Bump(@), !.sunk = @ \o bytes]
             /\ pc' = after
             /\ UNCHANGED exc
          \/ /\ MayFailWrite(bytes)
             /\ output' = OstreamFail(output)
             /\ hist' = [hist EXCEPT !.nWrites = Bump(@), !.writeFailed = TRUE,
                                      !.sunk = @ \o bytes]
             /\ \/ /\ pc' = after
                   /\ UNCHANGED exc
                \/ /\ exc' = Threw("ios_failure", "write")
                   /\ pc' = "ds_catch"
    /\ UNCHANGED <<op, outcome, stage, data, level, input, stream, inBuf,
                   outBuf, flush, ret, bufferSize, i, err, result>>

\* The values a read of ret can yield at line 201: the value last assigned,
\* or any value when the loop was left before ret was ever assigned.
RetValues == IF ret = "UNINIT" THEN {"Z_STREAM_END", "Z_OK"} ELSE {ret}

\* Lines 201-203: if (ret != Z_STREAM_END) throw "Decompression incomplete".
DS_Check ==
    /\ op = "decompressStream" /\ pc = "ds_check"
    /\ \E v \in RetValues :
        IF v # "Z_STREAM_END"
        THEN /\ exc' = Threw("runtime_error", "Decompression incomplete")
             /\ pc' = "ds_catch"
        ELSE /\ pc' = "ds_end"
             /\ UNCHANGED exc
    /\ hist' = [hist EXCEPT !.undefRead = (ret = "UNINIT")]
    /\ UNCHANGED <<op, outcome, stage, data, level, input, output, stream,
                   inBuf, outBuf, flush, ret, bufferSize, i, err, result>>

\* Lines 204-207: catch (...) { cleanup(); throw; }
DS_Catch ==
    /\ op = "decompressStream" /\ pc = "ds_catch"
    /\ stream' = cleanup(stream)
    /\ outcome' = exc
    /\ pc' = "done"
    /\ UNCHANGED <<op, stage, data, level, input, output, inBuf, outBuf,
                   flush, ret, exc, bufferSize, i, err, result, hist>>

\* Line 209: cleanup() on the normal path, then the return.
DS_End ==
    /\ op = "decompressStream" /\ pc = "ds_end"
    /\ stream' = cleanup(stream)
    /\ outcome' = Returned
    /\ pc' = "done"
    /\ UNCHANGED <<op, stage, data, level, input, output, inBuf, outBuf,
                   flush, ret, exc, bufferSize, i, err, result, hist>>

\* ------------------------------------------------------------ Zip::compress
\* The caller: Zip::compress(data, level).
CallCompress ==
    /\ stage = 0
    /\ \E a \in Arguments :
        /\ Fresh("compress", "c_body")
        /\ level' = a[2] /\ data' = a[1]
        /\ input' = Istream(<<>>) /\ output' = Ostream
        /\ hist' = [NoHist EXCEPT !.orig = a[1]]

\* Lines 10-34, in the order of the source: the empty test, the level test,
\* compressBound, compress2, the error test, the resize.
Compress ==
    /\ op = "compress" /\ pc = "c_body"
    /\ IF data = <<>> THEN
            /\ result' = <<>>
            /\ outcome' = Returned
            /\ UNCHANGED hist
       ELSE IF level < 0 \/ level > 9 THEN
            /\ outcome' = Threw("invalid_argument", "Compression level must be between 0 and 9")
            /\ UNCHANGED <<result, hist>>
       ELSE LET r == compress2(compressBound(Len(data)), data, level) IN
            /\ hist' = [hist EXCEPT !.nCodec = Bump(@)]
            /\ IF r.err # "Z_OK"
               THEN /\ outcome' = Threw("runtime_error", "Compression failed")
                    /\ UNCHANGED result
               ELSE /\ result' = r.dest
                    /\ outcome' = Returned
    /\ pc' = "done"
    /\ UNCHANGED <<op, stage, data, level, input, output, stream, inBuf,
                   outBuf, flush, ret, exc, bufferSize, i, err>>

\* ---------------------------------------------------------- Zip::decompress
\* The slip of one attempt too many.
SixAttempts == 5 + 1
\* The attempts of the retry loop (line 46): for (int i = 0; i < 5; ++i).
MaxAttempts == 5

\* The caller: Zip::decompress(compressed) on a derived blob.
CallDecompress ==
    /\ CanDecompress
    /\ \E d \in Derived(Produced) \cup Damaged(Produced) :
        /\ Fresh("decompress", "d_entry")
        /\ level' = 0 /\ data' = d.src
        /\ input' = Istream(<<>>) /\ output' = Ostream
        /\ hist' = [NoHist EXCEPT !.orig = hist.orig, !.from = op,
                                  !.rel = d.rel, !.blob = Produced]

\* Lines 38-43: the empty test, bufferSize = size * 2, err = Z_BUF_ERROR.
D_Entry ==
    /\ op = "decompress" /\ pc = "d_entry"
    /\ IF data = <<>>
       THEN /\ outcome' = Returned
            /\ pc' = "done"
            /\ UNCHANGED <<bufferSize, err>>
       ELSE /\ bufferSize' = Len(data) * 2
            /\ err' = "Z_BUF_ERROR"
            /\ pc' = "d_loop"
            /\ UNCHANGED outcome
    /\ i' = 0
    /\ result' = <<>>
    /\ UNCHANGED <<op, stage, data, level, input, output, stream, inBuf,
                   outBuf, flush, ret, exc, hist>>

\* The slip of retrying whatever the error.
IsFatalNever(e) == FALSE
\* Line 58: if (err != Z_BUF_ERROR), the errors that end the loop at once.
IsFatal(e) == e # "Z_BUF_ERROR"

\* The slip of dividing first: 3 / 2 is 1 in integer arithmetic.
GrowTruncated(size) == size * (3 \div 2)
\* Line 63: bufferSize * 3 / 2.
Grow(size) == (size * 3) \div 2

\* Lines 46-63: one iteration of the loop: resize, uncompress, the Z_OK
\* return, the throw on any error but Z_BUF_ERROR, the growth and ++i.
D_Attempt ==
    /\ op = "decompress" /\ pc = "d_loop"
    /\ i < MaxAttempts
    /\ LET r == uncompress(bufferSize, data) IN
        /\ err' = r.err
        /\ hist' = [hist EXCEPT !.nCodec = Bump(@), !.caps = Append(@, bufferSize),
                                !.errs = Append(@, r.err)]
        /\ IF r.err = "Z_OK" THEN
                /\ result' = r.dest
                /\ outcome' = Returned
                /\ pc' = "done"
                /\ UNCHANGED <<bufferSize, i>>
           ELSE IF IsFatal(r.err) THEN
                /\ result' = Zeros(bufferSize)
                /\ outcome' = Threw("runtime_error", "Decompression failed")
                /\ pc' = "done"
                /\ UNCHANGED <<bufferSize, i>>
           ELSE
                /\ result' = Zeros(bufferSize)
                /\ bufferSize' = Grow(bufferSize)
                /\ i' = i + 1
                /\ UNCHANGED <<outcome, pc>>
    /\ UNCHANGED <<op, stage, data, level, input, output, stream, inBuf,
                   outBuf, flush, ret, exc>>

\* Line 66: the loop ran out of attempts.
D_Fail ==
    /\ op = "decompress" /\ pc = "d_loop"
    /\ ~(i < MaxAttempts)
    /\ outcome' = Threw("runtime_error", "output buffer too small after multiple attempts")
    /\ pc' = "done"
    /\ UNCHANGED <<op, stage, data, level, input, output, stream, inBuf,
                   outBuf, flush, ret, exc, bufferSize, i, err, result, hist>>

\* -------------------------------------------------------------- the system
Step == \/ CS_Init \/ CS_Read \/ CS_Deflate \/ CS_Write \/ CS_Catch \/ CS_End
        \/ DS_Init \/ DS_Read \/ DS_Inflate \/ DS_Write \/ DS_Check
        \/ DS_Catch \/ DS_End
        \/ Compress
        \/ D_Entry \/ D_Attempt \/ D_Fail

Next == \/ CallCompressStream \/ CallDecompressStream
        \/ CallCompress \/ CallDecompress
        \/ Step

Spec == Init /\ [][Next]_vars

\* The streaming operations alone, for the questions of termination: a
\* compressStream call on a short input, then decompressStream calls on what
\* it wrote.  The calling thread runs: an operation that can take a step
\* takes it.
StreamInit ==
    \E a \in {b \in Arguments : Len(b[1]) <= TermLen} :
        /\ op = "compressStream" /\ pc = "cs_init" /\ outcome = NoOutcome
        /\ stage = 1 /\ data = <<>> /\ level = a[2]
        /\ input = Istream(a[1]) /\ output = Ostream
        /\ stream = NoStream
        /\ inBuf = <<>> /\ outBuf = <<>>
        /\ flush = "UNINIT" /\ ret = "UNINIT" /\ exc = NoOutcome
        /\ bufferSize = 0 /\ i = 0 /\ err = "Z_OK" /\ result = <<>>
        /\ hist = [NoHist EXCEPT !.orig = a[1]]

StreamStep ==
    \/ CS_Init \/ CS_Read \/ CS_Deflate \/ CS_Write \/ CS_Catch \/ CS_End
    \/ DS_Init \/ DS_Read \/ DS_Inflate \/ DS_Write \/ DS_Check
    \/ DS_Catch \/ DS_End

StreamNext == CallDecompressStream \/ StreamStep

StreamSpec == StreamInit /\ [][StreamNext]_vars /\ WF_vars(StreamStep)

\* ================================================================== claims
Streaming == {"compressStream", "decompressStream"}
Done(o) == op = o /\ pc = "done"
\* The run met no failure of its environment: the device served every read
\* and write and the codec state could be allocated.
Undisturbed == ~hist.readFailed /\ ~hist.writeFailed /\ ~hist.setupFailed
                 /\ ~hist.memFailed
BufferExhaustion ==
    Threw("runtime_error", "output buffer too small after multiple attempts")
\* The complete stream the codec makes of the bytes B at level lvl.
FullBlob(B, lvl) == compress2(compressBound(Len(B)), B, lvl).dest

\* C1: streaming round trip.  When decompressStream has run, undisturbed, on
\* exactly the bytes compressStream wrote for B, it has returned normally
\* and its sink holds exactly B.
C1_StreamRoundTrip ==
    (Done("decompressStream") /\ hist.from = "compressStream"
        /\ hist.rel = "exact" /\ Undisturbed)
    => (outcome = Returned /\ output.data = hist.orig)

\* C1 witness: a round trip of an input longer than two chunks has finished.
C1_Witness ==
    /\ Done("decompressStream") /\ hist.from = "compressStream"
    /\ hist.rel = "exact" /\ Undisturbed
    /\ Len(hist.orig) > 2 * CHUNK_SIZE
    /\ outcome = Returned /\ output.data = hist.orig

\* C2: cross-compatibility, as claimed.  Zip::decompress of the bytes
\* compressStream wrote for B returns B, and decompressStream of
\* Zip::compress(B, L) returns normally with B in the sink.
C2_CrossRoundTrip ==
    /\ (Done("decompress") /\ hist.from = "compressStream"
            /\ hist.rel = "exact")
        => (outcome = Returned /\ result = hist.orig)
    /\ (Done("decompressStream") /\ hist.from = "compress"
            /\ hist.rel = "exact" /\ Undisturbed)
        => (outcome = Returned /\ output.data = hist.orig)

\* C3: truncated stream, as claimed.  decompressStream on a proper prefix of
\* a valid blob (the empty prefix included) never returns normally.
C3_TruncatedFails ==
    (Done("decompressStream") /\ hist.rel = "prefix")
    => outcome.kind \notin {"none", "returned"}

\* C4: streaming level validation, as claimed.  compressStream with a level
\* outside 0..9 ends with invalid_argument, creates no codec state and
\* writes nothing (runs in which the codec state could not be allocated
\* are left aside).
C4_StreamLevelRejected ==
    (Done("compressStream") /\ level \notin 0..9 /\ ~hist.setupFailed)
    => (outcome.kind = "invalid_argument" /\ hist.nInit = 0
        /\ output.data = <<>>)

\* C5: one-shot level validation, as claimed.  Zip::compress with a level
\* outside 0..9 ends with invalid_argument and returns nothing, whatever the
\* input.
C5_CompressLevelRejected ==
    (Done("compress") /\ level \notin 0..9)
    => (outcome.kind = "invalid_argument" /\ result = <<>>)

\* C6: exactly-once teardown.  In a streaming operation whose setup
\* succeeded, the codec state is never finalized twice, is not finalized
\* while the try block runs, and has been finalized exactly once when the
\* operation has returned or thrown; without setup it is never finalized.
C6_TeardownOnce ==
    op \in Streaming =>
        /\ stream.ends <= hist.nInit
        /\ (pc \notin {"done"} /\ hist.nInit = 1) => stream.ends = 0
        /\ (pc = "done" /\ hist.nInit = 1)
            => (stream.ends = 1 /\ stream.life = "Ended")

\* C6 witness: an operation left by an exception of the sink has torn down
\* its codec state once.
C6_Witness ==
    /\ op \in Streaming /\ pc = "done"
    /\ outcome = Threw("ios_failure", "write")
    /\ hist.nInit = 1 /\ stream.ends = 1

\* C7: buffer growth termination.  Zip::decompress calls uncompress at most
\* 5 times, and when every call reported Z_BUF_ERROR it has made exactly 5
\* calls and ended with the buffer-exhaustion failure, returning nothing.
C7_GrowthTerminates ==
    op = "decompress" =>
        /\ Len(hist.errs) <= 5
        /\ pc = "d_loop" => (i = Len(hist.errs) /\ outcome = NoOutcome)
        /\ (pc = "done" /\ hist.errs # <<>>
                /\ \A k \in 1..Len(hist.errs) : hist.errs[k] = "Z_BUF_ERROR")
            => (Len(hist.errs) = 5 /\ outcome = BufferExhaustion)

\* C7 witness: five attempts all reported Z_BUF_ERROR and the operation ended.
C7_Witness ==
    /\ Done("decompress")
    /\ hist.errs = [k \in 1..5 |-> "Z_BUF_ERROR"]
    /\ outcome = BufferExhaustion

\* C8: empty input, one-shot, as claimed.  Zip::compress of the empty
\* sequence at a valid level returns a non-empty blob, and Zip::decompress
\* of that blob returns the empty sequence.
C8_EmptyOneShot ==
    /\ (Done("compress") /\ data = <<>> /\ level \in 0..9)
        => (outcome = Returned /\ result # <<>>)
    /\ (Done("decompress") /\ hist.from = "compress" /\ hist.orig = <<>>
            /\ hist.rel = "exact")
        => (outcome = Returned /\ result = <<>>)

\* C9: sink failure is surfaced, as claimed.  A streaming operation in which
\* a sink write failed never returns normally.
C9_SinkFailureSurfaced ==
    (op \in Streaming /\ pc = "done" /\ hist.writeFailed)
    => outcome.kind \notin {"none", "returned"}

\* C10: streaming termination, as claimed.  Every streaming operation that
\* was called eventually returns or throws.
C10_StreamingTerminates ==
    [](op \in Streaming => <>(pc = "done"))

\* C11: bounded chunk memory.  From the allocation of the buffers to the end
\* of a streaming operation the input buffer holds CHUNK_SIZE bytes and the
\* output buffer 2 * CHUNK_SIZE bytes, a source read asks for and delivers
\* at most CHUNK_SIZE bytes, and a sink write carries at most
\* 2 * CHUNK_SIZE bytes, whatever the length of the source.
C11_BoundedChunkMemory ==
    (op \in Streaming /\ pc \notin {"cs_init", "ds_init"}) =>
        /\ Len(inBuf) = CHUNK_SIZE
        /\ Len(outBuf) = 2 * CHUNK_SIZE
        /\ hist.req <= CHUNK_SIZE
        /\ input.gcount <= CHUNK_SIZE
        /\ stream.avail_in <= CHUNK_SIZE
        /\ pc \in {"cs_write", "ds_write"} =>
                (Have(outBuf, stream) \in 0..(2 * CHUNK_SIZE))

\* C11 witness: the long run went through both streaming operations, the
\* second of them has restored all of it, and the buffers have their sizes.
C11_Witness ==
    /\ Done("decompressStream") /\ hist.rel = "exact"
    /\ Len(hist.orig) = LongLen /\ output.data = hist.orig
    /\ hist.req = CHUNK_SIZE
    /\ Len(inBuf) = CHUNK_SIZE /\ Len(outBuf) = 2 * CHUNK_SIZE

\* C12: no retry on other errors.  In Zip::decompress every attempt but the
\* last reported Z_BUF_ERROR, and once an attempt has reported an error
\* other than Z_BUF_ERROR the operation has ended with "Decompression
\* failed", the buffer size is still the one of that attempt and no further
\* call of uncompress follows.
C12_NoRetryOnOtherErrors ==
    op = "decompress" =>
        /\ Len(hist.caps) = Len(hist.errs)
        /\ \A k \in 1..(Len(hist.errs) - 1) : hist.errs[k] = "Z_BUF_ERROR"
        /\ (hist.errs # <<>>
                /\ hist.errs[Len(hist.errs)] \notin {"Z_OK", "Z_BUF_ERROR"})
            => /\ pc = "done"
               /\ outcome = Threw("runtime_error", "Decompression failed")
               /\ bufferSize = hist.caps[Len(hist.caps)]
               /\ i = Len(hist.errs) - 1

\* C12 witness: after retries on Z_BUF_ERROR an attempt reported
\* Z_DATA_ERROR and the operation ended there.
C12_Witness ==
    /\ Done("decompress")
    /\ Len(hist.errs) > 1 /\ Len(hist.errs) < MaxAttempts
    /\ hist.errs[Len(hist.errs)] = "Z_DATA_ERROR"
    /\ outcome = Threw("runtime_error", "Decompression failed")

\* C13: growth policy.  For a non-empty blob of c bytes the first attempt of
\* Zip::decompress has a capacity of 2 * c, every later attempt has
\* floor(3/2 * the capacity before it), the capacity the next attempt would
\* use follows the same rule, and every capacity is greater than the one
\* before it.
C13_GrowthPolicy ==
    op = "decompress" =>
        /\ hist.caps # <<>> => hist.caps[1] = 2 * Len(data)
        /\ \A k \in 1..(Len(hist.caps) - 1) :
                /\ 2 * hist.caps[k + 1] <= 3 * hist.caps[k]
                /\ 2 * hist.caps[k + 1] > 3 * hist.caps[k] - 2
                /\ hist.caps[k + 1] > hist.caps[k]
        /\ (pc = "d_loop" /\ hist.caps = <<>>) => bufferSize = 2 * Len(data)
        /\ (pc = "d_loop" /\ hist.caps # <<>>) =>
                LET last == hist.caps[Len(hist.caps)] IN
                /\ 2 * bufferSize <= 3 * last
                /\ 2 * bufferSize > 3 * last - 2
                /\ bufferSize > last

\* C13 witness: all five attempts were made, from 2 * c on, and one of the
\* capacities was odd, so that the next one was rounded down.
C13_Witness ==
    /\ Done("decompress") /\ Len(hist.caps) = MaxAttempts
    /\ hist.caps[1] = 2 * Len(data)
    /\ \E k \in 1..(MaxAttempts - 1) :
            hist.caps[k] % 2 = 1 /\ hist.caps[k + 1] > hist.caps[k]

\* C14: completion before return.  When compressStream has returned
\* normally, the last chunk was read at the end of the source and fed with
\* Z_FINISH, the last deflate call reported Z_STREAM_END, the codec holds
\* no input and no pending output, and everything up to the trailer was
\* handed to the sink (and is in the sink when no write failed).  Z_FINISH
\* is the flush value only after the source signalled its end, and no read
\* is about to happen once Z_FINISH was used.
C14_CompletionBeforeReturn ==
    op = "compressStream" =>
        /\ (pc \notin {"cs_init", "cs_read"} /\ flush = "Z_FINISH")
                => input.eofbit
        /\ (pc = "cs_read" /\ hist.nReads > 0) => flush = "Z_NO_FLUSH"
        /\ (pc = "done" /\ outcome = Returned) =>
                /\ flush = "Z_FINISH" /\ input.eofbit
                /\ input.pos = Len(input.buf)
                /\ err = "Z_STREAM_END"
                /\ stream.avail_in = 0
                /\ stream.st.status = "FINISH"
                /\ stream.st.run = <<>> /\ stream.st.pending = <<>>
                /\ hist.sunk = FullBlob(hist.orig, level)
                /\ ~hist.writeFailed => output.data = hist.sunk

\* C14 witness: a source of more than one chunk was compressed, the stream
\* took more than one output buffer, and the operation returned normally
\* with the trailer in the sink.
C14_Witness ==
    /\ Done("compressStream") /\ outcome = Returned /\ Undisturbed
    /\ Len(hist.orig) > CHUNK_SIZE /\ Len(output.data) > 2 * CHUNK_SIZE
    /\ flush = "Z_FINISH" /\ err = "Z_STREAM_END"
    /\ output.data = FullBlob(hist.orig, level)

\* C15: empty source, streaming.  compressStream on a source of zero bytes,
\* at a level of 0..9 and undisturbed, reads the source once, gets no byte
\* and the end of the source, calls deflate with no input and Z_FINISH only,
\* never enters the catch block, and ends by returning normally with a
\* stream in the sink that is not empty and that decompresses to the empty
\* sequence.
C15_EmptySourceStream ==
    (op = "compressStream" /\ hist.orig = <<>> /\ level \in 0..9
        /\ Undisturbed)
    => /\ pc # "cs_catch"
       /\ pc \in {"cs_deflate", "cs_write", "cs_end", "done"} =>
            /\ hist.nReads = 1 /\ input.gcount = 0 /\ input.eofbit
            /\ flush = "Z_FINISH"
       /\ pc \in {"cs_deflate", "cs_write"} =>
            (stream.avail_in = 0 /\ stream.next_in = 1)
       /\ pc \in {"cs_end", "done"} =>
            (hist.nCodec > 0 /\ err = "Z_STREAM_END")
       /\ pc = "done" =>
            /\ outcome = Returned
            /\ output.data # <<>>
            /\ output.data = HeaderOf(level) \o <<0>> \o Trailer(AdlerInit)
            /\ uncompress(1, output.data) = [err |-> "Z_OK", dest |-> <<>>]

\* C15 witness: compressStream has returned from an empty source with the
\* seven bytes of an empty stream in the sink.
C15_Witness ==
    /\ Done("compressStream") /\ hist.orig = <<>> /\ level \in 0..9
    /\ Undisturbed /\ outcome = Returned
    /\ hist.nReads = 1 /\ input.gcount = 0 /\ flush = "Z_FINISH"
    /\ Len(output.data) = 7

\* C16: codec runtime failure is fatal.  Once a deflate / inflate call of a
\* streaming operation has reported Z_DATA_ERROR, Z_NEED_DICT, Z_MEM_ERROR
\* or Z_STREAM_ERROR, the operation is in its catch block or has ended;
\* nothing was handed to the sink since that call was made, so the sink
\* holds none of its output; and when the operation has ended it has thrown
\* the codec failure, not returned, with the codec state finalized once.
C16_CodecFailureFatal ==
    ((op = "decompressStream" /\ ret \in {"Z_DATA_ERROR", "Z_NEED_DICT",
                                          "Z_MEM_ERROR", "Z_STREAM_ERROR"})
     \/ (op = "compressStream" /\ err \in {"Z_DATA_ERROR", "Z_NEED_DICT",
                                          "Z_MEM_ERROR", "Z_STREAM_ERROR"}))
    => /\ pc \in {"cs_catch", "ds_catch", "done"}
       /\ Len(hist.sunk) = hist.mark
       /\ Len(output.data) <= hist.mark
       /\ exc.kind = "runtime_error"
       /\ exc.what \in {"Compression error", "Decompression error"}
       /\ pc # "done" => (outcome = NoOutcome /\ stream.life = "Active")
       /\ pc = "done" => /\ outcome = exc
                         /\ stream.life = "Ended" /\ stream.ends = 1

\* C16 witness: an inflate call failed with output of its own in the
\* buffer and bytes of earlier cycles in the sink, and the operation has
\* thrown with the sink as it was.
C16_Witness ==
    /\ Done("decompressStream")
    /\ ret \in {"Z_DATA_ERROR", "Z_MEM_ERROR"}
    /\ output.data # <<>> /\ Len(output.data) = hist.mark
    /\ outcome = Threw("runtime_error", "Decompression error")
    /\ stream.life = "Ended"

\* C17: codec lifecycle order.  Within a streaming operation the codec
\* state changes only from Uninit to Active and from Active to Ended; a
\* deflate / inflate call is made only on an Active state and leaves it
\* Active; no step is taken once the state is Ended; and an operation whose
\* setup failed has thrown the setup failure with the state still Uninit,
\* without a teardown, without a deflate / inflate call and with nothing
\* handed to the sink.
C17_LifecycleOrder ==
    /\ [](op \in Streaming =>
            /\ pc \in {"cs_deflate", "ds_inflate"} => stream.life = "Active"
            /\ hist.nCodec > 0 => hist.nInit = 1
            /\ stream.life = "Ended" => pc = "done"
            /\ stream.life = "Uninit" => (stream.ends = 0 /\ hist.nCodec = 0)
            /\ (pc = "done" /\ hist.nInit = 0) =>
                    /\ outcome \in {Threw("runtime_error", "deflateInit failed"),
                                    Threw("runtime_error", "inflateInit failed")}
                    /\ stream.life = "Uninit" /\ stream.ends = 0
                    /\ hist.nCodec = 0
                    /\ hist.sunk = <<>> /\ output.data = <<>>)
    /\ [][(op \in Streaming /\ stage' = stage) =>
            /\ stream'.life # stream.life =>
                    <<stream.life, stream'.life>>
                        \in {<<"Uninit", "Active">>, <<"Active", "Ended">>}
            /\ hist'.nCodec # hist.nCodec =>
                    (stream.life = "Active" /\ stream'.life = "Active")
            /\ stream.life = "Ended" => UNCHANGED vars]_vars

\* C17 witness: the setup of decompressStream failed and the operation has
\* thrown with its codec state never initialised and never torn down.
C17_Witness ==
    /\ Done("decompressStream") /\ hist.setupFailed /\ hist.nInit = 0
    /\ outcome = Threw("runtime_error", "inflateInit failed")
    /\ stream.life = "Uninit" /\ stream.ends = 0 /\ hist.nCodec = 0
    /\ output.data = <<>>

\* C18: input fully consumed before the next read.  Whenever a streaming
\* operation is about to read the source, avail_in is 0 and the bytes the
\* codec has consumed are exactly the bytes read so far, in source order;
\* between reads the bytes consumed followed by the bytes still waiting in
\* inBuf are the bytes read so far, so no byte is lost, repeated or
\* overwritten before the codec took it.
C18_InputConsumedBeforeRead ==
    op \in Streaming =>
        /\ pc \in {"cs_read", "ds_read"} =>
                /\ stream.avail_in = 0
                /\ hist.fed = Take(input.buf, input.pos)
        /\ pc \in {"cs_deflate", "cs_write", "ds_inflate", "ds_write"} =>
                hist.fed \o SubSeq(inBuf, stream.next_in,
                                   stream.next_in + stream.avail_in - 1)
                    = Take(input.buf, input.pos)
        /\ IsPrefix(hist.fed, input.buf)

\* C18 witness: decompressStream is about to read again after a chunk whose
\* output took many turns of the inner loop, and all it has read was
\* consumed.
C18_Witness ==
    /\ op = "decompressStream" /\ pc = "ds_read"
    /\ hist.nReads >= 2 /\ Len(hist.sunk) >= LongLen
    /\ stream.avail_in = 0 /\ hist.fed = Take(input.buf, input.pos)

\* C19: the sink is an append-only prefix.  At every point of a
\* decompressStream run on a blob or on a proper prefix of a blob the sink
\* holds a prefix of the data the blob was made from; at every point of a
\* compressStream run the sink holds a prefix of the complete stream of its
\* source; and no step of a streaming operation, failing or not, changes or
\* removes a byte the sink already holds.
C19_SinkAppendOnlyPrefix ==
    /\ []((op = "decompressStream" /\ hist.rel \in {"exact", "prefix"})
            => IsPrefix(output.data, hist.orig))
    /\ [](op = "compressStream"
            => IsPrefix(output.data, FullBlob(hist.orig, level)))
    /\ [][(op \in Streaming /\ stage' = stage)
            => IsPrefix(output.data, output'.data)]_vars

\* C19 witness: decompressStream has failed on a truncated blob after it
\* had written a part of the data, and the sink still holds that part.
C19_Witness ==
    /\ Done("decompressStream") /\ hist.rel = "prefix"
    /\ outcome = Threw("runtime_error", "Decompression incomplete")
    /\ output.data # <<>> /\ Len(output.data) < Len(hist.orig)
    /\ IsPrefix(output.data, hist.orig)

\* C20: stop at stream end.  Once inflate has reported Z_STREAM_END,
\* decompressStream is never again about to read; the bytes the codec has
\* consumed are exactly the blob, whatever follows it in the source; the
\* read position is that of the chunk the trailer ended in; no codec
\* failure or "incomplete" failure is raised; and when the operation has
\* ended, everything handed to the sink is the original data, and the
\* operation has returned normally unless a sink write threw.
C20_StopAtStreamEnd ==
    (op = "decompressStream" /\ ret = "Z_STREAM_END") =>
        /\ pc # "ds_read"
        /\ hist.fed = hist.blob
        /\ input.pos - stream.avail_in = Len(hist.blob)
        /\ stream.avail_in < CHUNK_SIZE
        /\ exc.kind # "runtime_error"
        /\ pc \in {"ds_check", "ds_end", "done"} => hist.sunk = hist.orig
        /\ pc = "done" =>
                /\ outcome.kind \in {"returned", "ios_failure"}
                /\ ~hist.writeFailed =>
                        (outcome = Returned /\ output.data = hist.orig)

\* C20 witness: the source held bytes after the trailer, some in the chunk
\* the trailer ended in and some never read, and decompressStream has
\* returned normally with exactly the original data in the sink.
C20_Witness ==
    /\ Done("decompressStream") /\ hist.rel = "trailing"
    /\ ret = "Z_STREAM_END" /\ outcome = Returned
    /\ stream.avail_in > 0 /\ input.pos < Len(input.buf)
    /\ hist.orig # <<>> /\ output.data = hist.orig
====
